---------------------------- MODULE Spec2Model ----------------------------
(***************************************************************************)
(* A model of labelprinter (src/src/main.c): command-line parsing, the     *)
(* printer / paper / page-settings pipeline, the label decoder open_label  *)
(* and the fit-and-render step print_label, with the results of the        *)
(* operating system's calls chosen nondeterministically.                   *)
(***************************************************************************)
EXTENDS Integers, Sequences, FiniteSets, TLC

VARIABLES
    argv,       \* the command line after the program name, as getopt permutes it
    optind,     \* getopt's optind: index of the next element of argv to scan
    nextchar,   \* getopt's place inside a cluster of short options (0: none)
    skipped,    \* getopt's first_nonopt and last_nonopt: the non-options it
                \* has passed over; origin: where each element of argv was
    opt,        \* main's opt, with the argv element it was taken from
    opts,       \* main's printer_name, paper_size_name, orientation
    dry_run,    \* the global dry_run
    verbose,    \* the global verbose
    is_landscape, \* main's is_landscape
    held,       \* main's default_printer_name, default_paper_size_name,
                \* paper_size, devmode, context
    file_i,     \* main's loop index i (0-based, as in the source)
    dc,         \* the device context behind main's context
    log,        \* every event of the run so far, in order
    returned,   \* the function calls that returned in the last step
    outcome,    \* how the run went: "none", "help", "usage", "error",
                \* "success", "crash"
    pc,         \* main's position
    status,     \* the process's exit status ("running" until it ends)
    fit,        \* the scale / centering computation of print_label on its own
    dec         \* open_label on its own

mainvars ==
    <<argv, optind, nextchar, skipped, opt, opts, dry_run, verbose,
      is_landscape, held, file_i, dc, log, returned, outcome, pc, status>>

aux == <<fit, dec>>

vars == <<mainvars, aux>>

(***************************************************************************)
(* 32-bit int arithmetic of C.  An operator that can run into undefined    *)
(* behaviour returns [ub, v]: ub says that it did, v is then the value a   *)
(* build that does not trap produces (two's complement wrap-around, 0 for  *)
(* a division by zero on a target whose divide instruction does not        *)
(* fault).  The caller chooses between v and a crash.                      *)
(***************************************************************************)
IntMax == 2147483647

IntMin == -IntMax - 1

Abs(a) == IF a < 0 THEN -a ELSE a

AddFits(a, b) ==
    IF b >= 0 THEN a <= IntMax - b ELSE a >= IntMin - b

AddWrap(a, b) ==
    IF AddFits(a, b) THEN a + b
    ELSE IF b >= 0 THEN IntMin + (a - (IntMax - b) - 1)
    ELSE IntMax - ((IntMin - b) - a - 1)

NegWrap(a) == IF a = IntMin THEN IntMin ELSE -a

SubFits(a, b) ==
    IF b >= 0 THEN a >= IntMin + b ELSE a <= IntMax + b

Sub32(a, b) ==
    IF SubFits(a, b) THEN [ub |-> FALSE, v |-> a - b]
    ELSE [ub |-> TRUE, v |-> AddWrap(a, NegWrap(b))]

MulFits(a, b) ==
    \/ a = 0
    \/ b = 0
    \/ /\ a # IntMin
       /\ b # IntMin
       /\ Abs(a) <= IntMax \div Abs(b)
    \/ /\ (a < 0) # (b < 0)
       /\ \/ (a = IntMin /\ b = 1)
          \/ (b = IntMin /\ a = 1)
          \/ /\ a # IntMin
             /\ b # IntMin
             /\ Abs(a) = (IntMax \div Abs(b)) + 1
             /\ IntMax % Abs(b) = Abs(b) - 1

RECURSIVE MulWrapNat(_, _)
MulWrapNat(a, n) ==
    IF n = 0 THEN 0
    ELSE LET h == MulWrapNat(a, n \div 2)
             d == AddWrap(h, h)
         IN  IF n % 2 = 1 THEN AddWrap(d, a) ELSE d

MulWrap(a, b) ==
    IF b = IntMin THEN (IF a % 2 = 0 THEN 0 ELSE IntMin)
    ELSE IF b < 0 THEN NegWrap(MulWrapNat(a, -b))
    ELSE MulWrapNat(a, b)

Mul32(a, b) ==
    IF MulFits(a, b) THEN [ub |-> FALSE, v |-> a * b]
    ELSE [ub |-> TRUE, v |-> MulWrap(a, b)]

\* The quotient of C's / on ints: truncated toward zero.
CDiv(a, b) ==
    IF a = IntMin
    THEN (IF b > 0 THEN -(IntMax \div b) - (IF IntMax % b = b - 1 THEN 1 ELSE 0)
          ELSE (IntMax \div (-b)) + (IF IntMax % (-b) = (-b) - 1 THEN 1 ELSE 0))
    ELSE IF (a < 0) = (b < 0) THEN Abs(a) \div Abs(b)
    ELSE -(Abs(a) \div Abs(b))

Div32(a, b) ==
    IF b = 0 THEN [ub |-> TRUE, v |-> 0]
    ELSE IF a = IntMin /\ b = -1 THEN [ub |-> TRUE, v |-> IntMin]
    ELSE [ub |-> FALSE, v |-> CDiv(a, b)]

(***************************************************************************)
(* print_label's arithmetic (main.c 551-567).                              *)
(***************************************************************************)
\* A computed int: its value v in a build that does not trap; ovf: an int
\* overflow happened on the way; dz: a division faulted (by zero, or
\* INT_MIN / -1); ub: either.
Computed(ovf, dz, v) == [ub |-> ovf \/ dz, ovf |-> ovf, dz |-> dz, v |-> v]

\* t.ovf: the build aborts on an int overflow (-ftrapv); t.div: the
\* division instruction faults.  Whether the operation s ends the process.
Traps(t, s) == (t.ovf /\ s.ovf) \/ (t.div /\ s.dz)

\* bitmap_print_w = (label->width * print_resx) / label->xres
ScaleQuotient(p, dens) ==
    Computed(p.ub, Div32(p.v, dens).ub, Div32(p.v, dens).v)

\* print_resx = LOGPIXELSX * 10000 / 254, in int
PrintRes(dpi) == ScaleQuotient(Mul32(dpi, 10000), 254)

\* a scale that divides by the density before multiplying
ScaleProduct(q, res) ==
    Computed(Mul32(q.v, res).ub, q.ub, Mul32(q.v, res).v)

ScaleToPrinter_DivFirst(px, res, dens) == ScaleProduct(Div32(px, dens), res)

ScaleToPrinter(px, res, dens) == ScaleQuotient(Mul32(px, res), dens)

\* bitmap_print_offx = (print_w - bitmap_print_w) / 2
HalfOf(s) == Computed(s.ub, FALSE, CDiv(s.v, 2))

\* a centering that clamps a negative offset to zero
HalfOfClamped(s) == Computed(s.ub, FALSE, IF s.v < 0 THEN 0 ELSE CDiv(s.v, 2))

CenterOffset_Clamped(print, bitmap) == HalfOfClamped(Sub32(print, bitmap))

CenterOffset(print, bitmap) == HalfOf(Sub32(print, bitmap))

(***************************************************************************)
(* Strings are sequences of characters; a pointer is Null or Ptr(value).   *)
(***************************************************************************)
Null == [null |-> TRUE]

Ptr(x) == [null |-> FALSE, v |-> x]

Upper == <<"A","B","C","D","E","F","G","H","I","J","K","L","M",
           "N","O","P","Q","R","S","T","U","V","W","X","Y","Z">>

Lower == <<"a","b","c","d","e","f","g","h","i","j","k","l","m",
           "n","o","p","q","r","s","t","u","v","w","x","y","z">>

tolower(c) ==
    IF \E i \in 1..Len(Upper) : Upper[i] = c
    THEN Lower[CHOOSE i \in 1..Len(Upper) : Upper[i] = c]
    ELSE c

IsPrefix(p, s) == Len(p) <= Len(s) /\ SubSeq(s, 1, Len(p)) = p

W_printer == <<"p","r","i","n","t","e","r">>

W_paper_size == <<"p","a","p","e","r","-","s","i","z","e">>

W_orientation == <<"o","r","i","e","n","t","a","t","i","o","n">>

W_help == <<"h","e","l","p">>

W_dry_run == <<"d","r","y","-","r","u","n">>

W_verbose == <<"v","e","r","b","o","s","e">>

W_landscape == <<"l","a","n","d","s","c","a","p","e">>

W_portrait == <<"p","o","r","t","r","a","i","t">>

\* static struct option long_options[] (main.c 51-56)
long_options == <<
    [name |-> W_printer,     has_arg |-> TRUE,  val |-> "p"],
    [name |-> W_paper_size,  has_arg |-> TRUE,  val |-> "s"],
    [name |-> W_orientation, has_arg |-> TRUE,  val |-> "o"],
    [name |-> W_help,        has_arg |-> FALSE, val |-> "h"] >>

\* the optstring "p:s:o:dvh" (main.c 705)
optstring == <<
    [ch |-> "p", has_arg |-> TRUE],
    [ch |-> "s", has_arg |-> TRUE],
    [ch |-> "o", has_arg |-> TRUE],
    [ch |-> "d", has_arg |-> FALSE],
    [ch |-> "v", has_arg |-> FALSE],
    [ch |-> "h", has_arg |-> FALSE] >>

(***************************************************************************)
(* getopt_long as main calls it (main.c 702-707): the C library's scan of  *)
(* argv with permutation of non-options, clusters of short options,        *)
(* --name, --name=value and unambiguous abbreviations of long names.       *)
(* It returns the option character, "?" for an error, "-1" at the end.     *)
(***************************************************************************)
IsOptTok(t) == Len(t) >= 2 /\ t[1] = "-"

IsLongTok(t) == Len(t) > 2 /\ t[1] = "-" /\ t[2] = "-"

\* NONOPTION_P negated: the index of the first option element of av from oi
\* on, Len(av) + 1 (argc) if there is none
NextOptIndex(av, oi) ==
    IF \E j \in oi..Len(av) : IsOptTok(av[j])
    THEN CHOOSE j \in oi..Len(av) :
            IsOptTok(av[j]) /\ \A k \in oi..(j - 1) : ~IsOptTok(av[k])
    ELSE Len(av) + 1

(***************************************************************************)
(* getopt's scan.  g is [argv, optind, first_nonopt, last_nonopt, origin]: *)
(* the non-options passed over so far are argv[first_nonopt] up to         *)
(* argv[last_nonopt - 1]; origin[k] is the index that argv[k] had when     *)
(* main was entered, by which a pointer into argv (optarg) knows its       *)
(* element after getopt has moved it.                                      *)
(***************************************************************************)
ScanStart(av) ==
    [first_nonopt |-> 1, last_nonopt |-> 1, origin |-> [k \in 1..Len(av) |-> k]]

Scan(av, oi, d) ==
    [argv |-> av, optind |-> oi, first_nonopt |-> d.first_nonopt,
     last_nonopt |-> d.last_nonopt, origin |-> d.origin]

Min(a, b) == IF a < b THEN a ELSE b

\* s with its parts first..last-1 and last..oi-1 swapped
Exchanged(s, first, last, oi) ==
    SubSeq(s, 1, first - 1) \o SubSeq(s, last, oi - 1)
        \o SubSeq(s, first, last - 1) \o SubSeq(s, oi, Len(s))

\* exchange(): the options scanned since the non-options were passed over
\* move in front of them
exchange(g) ==
    [g EXCEPT !.argv = Exchanged(@, g.first_nonopt, g.last_nonopt, g.optind),
              !.origin = Exchanged(@, g.first_nonopt, g.last_nonopt, g.optind),
              !.first_nonopt = @ + (g.optind - g.last_nonopt),
              !.last_nonopt = g.optind]

ScanClamped(g) ==
    [g EXCEPT !.last_nonopt = Min(@, g.optind), !.first_nonopt = Min(@, g.optind)]

\* at the start of a call: the non-options passed over before the last
\* option go behind it
ScanPermuted(g) ==
    IF g.first_nonopt # g.last_nonopt /\ g.last_nonopt # g.optind THEN exchange(g)
    ELSE IF g.last_nonopt # g.optind THEN [g EXCEPT !.first_nonopt = g.optind]
    ELSE g

\* pass over the non-options that come next
ScanSkipped(g) ==
    [g EXCEPT !.optind = NextOptIndex(g.argv, g.optind),
              !.last_nonopt = NextOptIndex(g.argv, g.optind)]

\* after "--": everything behind it is a non-option
ScanEnded(g) ==
    [(IF g.first_nonopt # g.last_nonopt /\ g.last_nonopt # g.optind
      THEN exchange(g)
      ELSE IF g.first_nonopt = g.last_nonopt
      THEN [g EXCEPT !.first_nonopt = g.optind]
      ELSE g) EXCEPT !.last_nonopt = Len(g.argv) + 1, !.optind = Len(g.argv) + 1]

ScanDashDash(g) ==
    IF g.optind <= Len(g.argv) /\ g.argv[g.optind] = <<"-", "-">>
    THEN ScanEnded([g EXCEPT !.optind = @ + 1])
    ELSE g

\* "Advance to the next ARGV-element"
ScanAdvanced(g) == ScanDashDash(ScanSkipped(ScanPermuted(ScanClamped(g))))

\* optarg: a pointer into argv, to character from of element i
ArgAt(av, i, from) ==
    [null |-> FALSE, v |-> SubSeq(av[i], from, Len(av[i])), i |-> i, from |-> from]

GetoptResult(o, arg, tok, oi, nc) ==
    [opt |-> o, optarg |-> arg, tok |-> tok, optind |-> oi, nextchar |-> nc]

\* one short option: character nc of the cluster av[oi]
getopt_short(av, oi, nc) ==
    LET t == av[oi]
        c == t[nc]
        last == nc = Len(t)
        known == \E i \in 1..Len(optstring) : optstring[i].ch = c
        o == optstring[CHOOSE i \in 1..Len(optstring) : optstring[i].ch = c]
    IN  IF ~known
        THEN GetoptResult("?", Null, t, IF last THEN oi + 1 ELSE oi,
                          IF last THEN 0 ELSE nc + 1)
        ELSE IF ~o.has_arg
        THEN GetoptResult(c, Null, t, IF last THEN oi + 1 ELSE oi,
                          IF last THEN 0 ELSE nc + 1)
        ELSE IF ~last
        THEN GetoptResult(c, ArgAt(av, oi, nc + 1), t, oi + 1, 0)
        ELSE IF oi + 1 > Len(av)
        THEN GetoptResult("?", Null, t, oi + 1, 0)
        ELSE GetoptResult(c, ArgAt(av, oi + 1, 1), t, oi + 2, 0)

\* one long option: the element av[oi]
getopt_longopt(av, oi) ==
    LET t == av[oi]
        body == SubSeq(t, 3, Len(t))
        haseq == \E i \in 1..Len(body) : body[i] = "="
        eq == IF haseq
              THEN CHOOSE i \in 1..Len(body) :
                      body[i] = "=" /\ \A k \in 1..(i - 1) : body[k] # "="
              ELSE Len(body) + 1
        name == SubSeq(body, 1, eq - 1)
        exact == {i \in 1..Len(long_options) : long_options[i].name = name}
        abbr == {i \in 1..Len(long_options) : IsPrefix(name, long_options[i].name)}
        found == IF exact # {} THEN exact ELSE abbr
        o == long_options[CHOOSE i \in found : TRUE]
    IN  IF Cardinality(found) # 1
        THEN GetoptResult("?", Null, t, oi + 1, 0)
        ELSE IF ~o.has_arg
        THEN GetoptResult(IF haseq THEN "?" ELSE o.val, Null, t, oi + 1, 0)
        ELSE IF haseq
        THEN GetoptResult(o.val, ArgAt(av, oi, eq + 3), t, oi + 1, 0)
        ELSE IF oi + 1 > Len(av)
        THEN GetoptResult("?", Null, t, oi + 1, 0)
        ELSE GetoptResult(o.val, ArgAt(av, oi + 1, 1), t, oi + 2, 0)

\* what a call returns and leaves behind; optarg names its element by origin
GetoptState(r, g) ==
    [opt |-> r.opt,
     optarg |-> IF r.optarg.null THEN Null
                ELSE [r.optarg EXCEPT !.i = g.origin[@]],
     tok |-> r.tok, optind |-> r.optind, nextchar |-> r.nextchar,
     argv |-> g.argv,
     skipped |-> [first_nonopt |-> g.first_nonopt, last_nonopt |-> g.last_nonopt,
                  origin |-> g.origin]]

\* all elements scanned: optind goes back to the first non-option
GetoptEnd(g) ==
    GetoptState(GetoptResult("-1", Null, <<>>,
                             IF g.first_nonopt # g.last_nonopt
                             THEN g.first_nonopt ELSE g.optind, 0), g)

\* the element at g.optind, after the advance
GetoptElement(g) ==
    IF g.optind = Len(g.argv) + 1 THEN GetoptEnd(g)
    ELSE GetoptState(IF IsLongTok(g.argv[g.optind])
                     THEN getopt_longopt(g.argv, g.optind)
                     ELSE getopt_short(g.argv, g.optind, 2), g)

\* one call of getopt_long(argc, argv, "p:s:o:dvh", long_options, NULL);
\* d: first_nonopt, last_nonopt and origin as the call before left them
getopt_long(av, oi, nc, d) ==
    IF nc > 0
    THEN GetoptState(getopt_short(av, oi, nc), Scan(av, oi, d))
    ELSE GetoptElement(ScanAdvanced(Scan(av, oi, d)))

(***************************************************************************)
(* Calls and their results.  Every call a function makes that acquires,    *)
(* releases or acts on a resource is logged as an event, in program order. *)
(* The environment e of one function call names, in e.fail, the one        *)
(* fallible call that fails in it ("none": all succeed); a function        *)
(* returns at its first failure, so this reaches every path.               *)
(* A function's result is [ret, ev, handed, crash]: its return value, its  *)
(* events, the resources it hands to its caller, whether the process died  *)
(* inside it.                                                              *)
(***************************************************************************)
Ev(fn, call, obj, ok) == [fn |-> fn, call |-> call, obj |-> obj, ok |-> ok]

Result(ret, ev, handed) ==
    [ret |-> ret, ev |-> ev, handed |-> handed, crash |-> FALSE, released |-> {}]

Crashed(ev) ==
    [ret |-> Null, ev |-> ev, handed |-> {}, crash |-> TRUE, released |-> {}]

\* a return after free() was given a pointer to the caller's buffer b
Releasing(ret, ev, handed, b) ==
    [ret |-> ret, ev |-> ev, handed |-> handed, crash |-> FALSE, released |-> {b}]

\* what the host and the driver report
DefaultPrinter == <<"Z","D","4","1","0">>

DefaultForm == <<"4","x","6">>

\* the driver's catalog: DC_PAPERNAMES, DC_PAPERS, DC_PAPERSIZE (0.1 mm)
PaperNames == << <<"A","4">>, <<"4","x","6">>, <<"4","x","6">>, <<"2","x","1">> >>

PaperCodes == <<9, 256, 257, 258>>

PaperDims == << <<2100, 2970>>, <<1016, 1524>>, <<1000, 1500>>, <<508, 254>> >>

(***************************************************************************)
(* get_default_printer (main.c 80-114)                                     *)
(***************************************************************************)
GdpFails == {"none", "size", "malloc", "GetDefaultPrinter"}

\* the exit label (main.c 109-113)
get_default_printer_exit(printer_name) ==
    IF ~printer_name.null
    THEN <<Ev("get_default_printer", "free", "printer_name", TRUE)>>
    ELSE <<>>

get_default_printer(e) ==
    LET F == "get_default_printer"
        e1 == <<Ev(F, "GetDefaultPrinter", "size", e.fail # "size")>>
        e2 == e1 \o <<Ev(F, "malloc", "printer_name", e.fail # "malloc")>>
        e3 == e2 \o <<Ev(F, "GetDefaultPrinter", "name",
                         e.fail # "GetDefaultPrinter")>>
    IN  IF e.fail = "size"
        THEN Result(Null, e1 \o get_default_printer_exit(Null), {})
        ELSE IF e.fail = "malloc"
        THEN Result(Null, e2 \o get_default_printer_exit(Null), {})
        ELSE IF e.fail = "GetDefaultPrinter"
        THEN Result(Null, e3 \o get_default_printer_exit(Ptr("printer_name")), {})
        ELSE Result(Ptr(DefaultPrinter), e3, {"printer_name"})

(***************************************************************************)
(* get_default_paper_size_name (main.c 122-186).  printer_info is declared *)
(* at line 142, behind the first two goto exit: on those paths the exit    *)
(* label reads it uninitialized, and e.junk is what it holds: "null", or   *)
(* a stray pointer that free() survives ("wild") or dies on ("crash"), or  *)
(* what the stack slot held before: the address of a live buffer of the    *)
(* caller, named by its variable in main, which free() then releases.      *)
(***************************************************************************)
GdpsnFails ==
    {"none", "OpenPrinter", "size", "malloc", "GetPrinter", "pDevMode",
     "strdup", "ClosePrinter"}

MainBuffers == {"default_printer_name"}

\* h: what main holds when it makes the call
Junk(h) == {"null", "wild", "crash"} \cup {b \in MainBuffers : ~h[b].null}

\* the exit label (main.c 178-185); printer_info: "null", "set" or junk
get_default_paper_size_name_exit(ev, printer_open, printer_info) ==
    LET F == "get_default_paper_size_name"
        c == IF printer_open THEN <<Ev(F, "ClosePrinter", "printer", TRUE)>>
             ELSE <<>>
        f == <<Ev(F, "free", "printer_info", TRUE)>>
    IN  IF printer_info = "null" THEN Result(Null, ev \o c, {})
        ELSE IF printer_info = "crash" THEN Crashed(ev \o c \o f)
        ELSE IF printer_info \in MainBuffers
        THEN Releasing(Null, ev \o c \o f, {}, printer_info)
        ELSE Result(Null, ev \o c \o f, {})

get_default_paper_size_name(printer_name, e) ==
    LET F == "get_default_paper_size_name"
        e1 == <<Ev(F, "OpenPrinter", "printer", e.fail # "OpenPrinter")>>
        e2 == e1 \o <<Ev(F, "GetPrinter", "size", e.fail # "size")>>
        e3 == e2 \o <<Ev(F, "malloc", "printer_info", e.fail # "malloc")>>
        e4 == e3 \o <<Ev(F, "GetPrinter", "info", e.fail # "GetPrinter")>>
        e5 == e4 \o <<Ev(F, "strdup", "paper_size", e.fail # "strdup")>>
        e6 == e5 \o <<Ev(F, "ClosePrinter", "printer", e.fail # "ClosePrinter")>>
    IN  IF e.fail = "OpenPrinter"
        THEN get_default_paper_size_name_exit(e1, FALSE, e.junk)
        ELSE IF e.fail = "size"
        THEN get_default_paper_size_name_exit(e2, TRUE, e.junk)
        ELSE IF e.fail = "malloc"
        THEN get_default_paper_size_name_exit(e3, TRUE, "null")
        ELSE IF e.fail \in {"GetPrinter", "pDevMode"}
        THEN get_default_paper_size_name_exit(e4, TRUE, "set")
        ELSE IF e.fail = "strdup"
        THEN get_default_paper_size_name_exit(e5, TRUE, "set")
        ELSE IF e.fail = "ClosePrinter"
        THEN get_default_paper_size_name_exit(e6, TRUE, "set")
        ELSE Result(Ptr(DefaultForm), e6, {"paper_size"})

(***************************************************************************)
(* get_paper_size (main.c 195-309)                                         *)
(***************************************************************************)
GpsFails ==
    {"none", "count", "malloc.sizes", "DC_PAPERS", "malloc.dimensions",
     "DC_PAPERSIZE", "malloc.names", "DC_PAPERNAMES", "malloc.paper_size"}

\* the exit label (main.c 298-308), reached on every path
get_paper_size_exit(sizes, dimensions, names) ==
    LET F == "get_paper_size"
    IN  (IF sizes THEN <<Ev(F, "free", "sizes", TRUE)>> ELSE <<>>)
        \o (IF dimensions THEN <<Ev(F, "free", "dimensions", TRUE)>> ELSE <<>>)
        \o (IF names THEN <<Ev(F, "free", "names", TRUE)>> ELSE <<>>)

\* the search loop (main.c 264-284): the first index whose name matches, or 0
FindPaper(paper_size_name) ==
    IF \E i \in 1..Len(PaperNames) : PaperNames[i] = paper_size_name
    THEN CHOOSE i \in 1..Len(PaperNames) :
            /\ PaperNames[i] = paper_size_name
            /\ \A k \in 1..(i - 1) : PaperNames[k] # paper_size_name
    ELSE 0

get_paper_size(printer_name, paper_size_name, e) ==
    LET F == "get_paper_size"
        e1 == <<Ev(F, "DeviceCapabilities", "count", e.fail # "count")>>
        e2 == e1 \o <<Ev(F, "malloc", "sizes", e.fail # "malloc.sizes")>>
        e3 == e2 \o <<Ev(F, "DeviceCapabilities", "DC_PAPERS", e.fail # "DC_PAPERS")>>
        e4 == e3 \o <<Ev(F, "malloc", "dimensions", e.fail # "malloc.dimensions")>>
        e5 == e4 \o <<Ev(F, "DeviceCapabilities", "DC_PAPERSIZE",
                         e.fail # "DC_PAPERSIZE")>>
        e6 == e5 \o <<Ev(F, "malloc", "names", e.fail # "malloc.names")>>
        e7 == e6 \o <<Ev(F, "DeviceCapabilities", "DC_PAPERNAMES",
                         e.fail # "DC_PAPERNAMES")>>
        i == FindPaper(paper_size_name)
        e8 == e7 \o <<Ev(F, "malloc", "paper_size", e.fail # "malloc.paper_size")>>
    IN  IF e.fail = "count"
        THEN Result(Null, e1 \o get_paper_size_exit(FALSE, FALSE, FALSE), {})
        ELSE IF e.fail = "malloc.sizes"
        THEN Result(Null, e2 \o get_paper_size_exit(FALSE, FALSE, FALSE), {})
        ELSE IF e.fail = "DC_PAPERS"
        THEN Result(Null, e3 \o get_paper_size_exit(TRUE, FALSE, FALSE), {})
        ELSE IF e.fail = "malloc.dimensions"
        THEN Result(Null, e4 \o get_paper_size_exit(TRUE, FALSE, FALSE), {})
        ELSE IF e.fail = "DC_PAPERSIZE"
        THEN Result(Null, e5 \o get_paper_size_exit(TRUE, TRUE, FALSE), {})
        ELSE IF e.fail = "malloc.names"
        THEN Result(Null, e6 \o get_paper_size_exit(TRUE, TRUE, FALSE), {})
        ELSE IF e.fail = "DC_PAPERNAMES"
        THEN Result(Null, e7 \o get_paper_size_exit(TRUE, TRUE, TRUE), {})
        ELSE IF i = 0
        THEN Result(Null, e7 \o get_paper_size_exit(TRUE, TRUE, TRUE), {})
        ELSE IF e.fail = "malloc.paper_size"
        THEN Result(Null, e8 \o get_paper_size_exit(TRUE, TRUE, TRUE), {})
        ELSE Result(Ptr([name |-> PaperNames[i], size |-> PaperCodes[i],
                         width_mm |-> <<PaperDims[i][1] \div 10, PaperDims[i][1] % 10>>,
                         height_mm |-> <<PaperDims[i][2] \div 10, PaperDims[i][2] % 10>>]),
                    e8 \o get_paper_size_exit(TRUE, TRUE, TRUE), {"paper_size"})

(***************************************************************************)
(* set_paper_size (main.c 311-393).  e.clamp: the driver, asked to apply   *)
(* the settings, normalizes them to its own paper and orientation.         *)
(***************************************************************************)
SpsFails == {"none", "OpenPrinter", "size", "malloc", "get", "set"}

DMORIENT_PORTRAIT == 1

DMORIENT_LANDSCAPE == 2

\* the exit label (main.c 383-392)
set_paper_size_exit(printer_open, devmode) ==
    LET F == "set_paper_size"
    IN  (IF printer_open THEN <<Ev(F, "ClosePrinter", "printer", TRUE)>> ELSE <<>>)
        \o (IF ~devmode.null THEN <<Ev(F, "free", "devmode", TRUE)>> ELSE <<>>)

set_paper_size(printer_name, paper_size, landscape, dry, e) ==
    LET F == "set_paper_size"
        e1 == <<Ev(F, "OpenPrinter", "printer", e.fail # "OpenPrinter")>>
        e2 == e1 \o <<Ev(F, "DocumentProperties", "size", e.fail # "size")>>
        e3 == e2 \o <<Ev(F, "malloc", "devmode", e.fail # "malloc")>>
        e4 == e3 \o <<Ev(F, "DocumentProperties", "DM_OUT_BUFFER", e.fail # "get")>>
        \* main.c 357-359
        asked == [dmPaperSize |-> paper_size.size,
                  dmOrientation |-> IF landscape THEN DMORIENT_LANDSCAPE
                                    ELSE DMORIENT_PORTRAIT]
        e5 == IF dry THEN e4
              ELSE e4 \o <<Ev(F, "DocumentProperties", "DM_IN_BUFFER",
                              e.fail # "set")>>
        applied == IF ~dry /\ e.clamp
                   THEN [dmPaperSize |-> PaperCodes[1],
                         dmOrientation |-> DMORIENT_PORTRAIT]
                   ELSE asked
    IN  IF e.fail = "OpenPrinter"
        THEN Result(Null, e1 \o set_paper_size_exit(FALSE, Null), {})
        ELSE IF e.fail = "size"
        THEN Result(Null, e2 \o set_paper_size_exit(TRUE, Null), {})
        ELSE IF e.fail = "malloc"
        THEN Result(Null, e3 \o set_paper_size_exit(TRUE, Null), {})
        ELSE IF e.fail = "get"
        THEN Result(Null, e4 \o set_paper_size_exit(TRUE, Ptr(asked)), {})
        ELSE IF ~dry /\ e.fail = "set"
        THEN Result(Null, e5 \o set_paper_size_exit(TRUE, Ptr(asked)), {})
        ELSE Result(Ptr(applied), e5, {"devmode"})

(***************************************************************************)
(* Label files.  A file is its length and the fields of its two headers;   *)
(* a header field lies in the buffer when the file is long enough to hold  *)
(* it, and reading one that does not yields whatever follows the buffer    *)
(* (e.g: the environment's choice).                                        *)
(***************************************************************************)
FileHeaderSize == 14

InfoHeaderSize == 40

BitmapSignature == 19778

MissingFile == [exists |-> FALSE]

BmpFile(len, type, size, off, w, h, xres, yres) ==
    [exists |-> TRUE, len |-> len, bfType |-> type, bfSize |-> size,
     bfOffBits |-> off, biWidth |-> w, biHeight |-> h,
     biXPelsPerMeter |-> xres, biYPelsPerMeter |-> yres]

\* header->bfType, header->bfSize, header->bfOffBits (main.c 448-462)
ReadType(file, g) == IF file.len >= 2 THEN file.bfType ELSE g.type

ReadSize(file, g) == IF file.len >= 6 THEN file.bfSize ELSE g.size

ReadOffBits(file, g) == IF file.len >= 14 THEN file.bfOffBits ELSE g.off

\* main.c 453-454 and 461-462: the two checks that reject a file
HeaderRejected(file, g) ==
    \/ ReadType(file, g) # BitmapSignature
    \/ ReadSize(file, g) # file.len
    \/ ReadOffBits(file, g) < FileHeaderSize + InfoHeaderSize
    \/ ReadOffBits(file, g) > file.len

\* the bytes [from, to) of file_data that open_label reads once ReadFile
\* has filled it (main.c 448-482): the DBG lines read only when verbose, and
\* || reads its right operand only when the left one is false
HeaderReads(file, g, verb) ==
    LET tagged == ReadType(file, g) = BitmapSignature
        sized == tagged /\ ReadSize(file, g) = file.len
    IN  {<<0, 2>>}
        \cup (IF verb \/ tagged THEN {<<2, 6>>} ELSE {})
        \cup (IF sized THEN {<<10, 14>>} ELSE {})

\* whether one of these reads lies past the end of the buffer
ReadsPastBuffer(file, g, verb) ==
    \E r \in HeaderReads(file, g, verb) : r[2] > file.len

(***************************************************************************)
(* open_label (main.c 395-505).  Two accesses have undefined behaviour and *)
(* either yield a value or end the process: a header field read from       *)
(* behind a buffer shorter than the file header (e.oob says it faults),    *)
(* and the info-header fields read at file_data + 14, an address aligned   *)
(* to 2 bytes for a structure that requires 4 (main.c 477-482;             *)
(* e.misaligned says the access traps).                                    *)
(***************************************************************************)
OpenFails == {"CreateFile", "too_large", "malloc.file_data", "ReadFile",
              "malloc.label"}

\* the exit label (main.c 494-504)
open_label_exit(f_open, file_data, label) ==
    LET F == "open_label"
    IN  (IF f_open THEN <<Ev(F, "CloseHandle", "f", TRUE)>> ELSE <<>>)
        \o (IF file_data THEN <<Ev(F, "free", "file_data", TRUE)>> ELSE <<>>)
        \o (IF label THEN <<Ev(F, "free", "label", TRUE)>> ELSE <<>>)

open_label(file, e) ==
    LET F == "open_label"
        e1 == <<Ev(F, "CreateFile", "f", file.exists /\ e.fail # "CreateFile")>>
        e2 == e1 \o <<Ev(F, "GetFileSize", "f", e.fail # "too_large")>>
        e3 == e2 \o <<Ev(F, "malloc", "file_data", e.fail # "malloc.file_data")>>
        e4 == e3 \o <<Ev(F, "ReadFile", "f", e.fail # "ReadFile")>>
        e5 == e4 \o <<Ev(F, "malloc", "label", e.fail # "malloc.label")>>
    IN  IF ~file.exists \/ e.fail = "CreateFile"
        THEN Result(Null, e1 \o open_label_exit(FALSE, FALSE, FALSE), {})
        ELSE IF e.fail = "too_large"
        THEN Result(Null, e2 \o open_label_exit(TRUE, FALSE, FALSE), {})
        ELSE IF e.fail = "malloc.file_data"
        THEN Result(Null, e3 \o open_label_exit(TRUE, FALSE, FALSE), {})
        ELSE IF e.fail = "ReadFile"
        THEN Result(Null, e4 \o open_label_exit(TRUE, TRUE, FALSE), {})
        ELSE IF e.oob /\ ReadsPastBuffer(file, e.g, verbose)
        THEN Crashed(e4)
        ELSE IF HeaderRejected(file, e.g)
        THEN Result(Null, e4 \o open_label_exit(TRUE, TRUE, FALSE), {})
        ELSE IF e.fail = "malloc.label"
        THEN Result(Null, e5 \o open_label_exit(TRUE, TRUE, FALSE), {})
        ELSE IF e.misaligned
        THEN Crashed(e5)
        ELSE Result(Ptr([width |-> file.biWidth, height |-> file.biHeight,
                         xres |-> file.biXPelsPerMeter,
                         yres |-> file.biYPelsPerMeter,
                         bits |-> ReadOffBits(file, e.g), size |-> file.len]),
                    e5 \o <<Ev(F, "CloseHandle", "f", TRUE)>>,
                    {"file_data", "label"})

\* the info-header fields open_label copies into the label (main.c 476-482)
InfoReads ==
    {<<FileHeaderSize + 4, FileHeaderSize + 8>>,
     <<FileHeaderSize + 8, FileHeaderSize + 12>>,
     <<FileHeaderSize + 24, FileHeaderSize + 28>>,
     <<FileHeaderSize + 28, FileHeaderSize + 32>>}

\* the fewest bytes StretchDIBits reads from label->bits for a width x
\* height image (main.c 645-652): one bit per pixel, rows padded to 4 bytes
MinPixelBytes(width, height) ==
    ((Abs(width) + 31) \div 32) * 4 * Abs(height)

\* close_label (main.c 507-516)
close_label(label) ==
    IF label.null THEN <<>>
    ELSE <<Ev("close_label", "free", "file_data", TRUE),
           Ev("close_label", "free", "label", TRUE)>>

(***************************************************************************)
(* The device context: its coordinate mapping, the states SaveDC has       *)
(* stacked, and the page settings it was created with.                     *)
(***************************************************************************)
InitialMapping ==
    [map_mode |-> "MM_TEXT", wext |-> <<1, 1>>, vext |-> <<1, 1>>,
     vorg |-> <<0, 0>>]

NewDC(devmode) == [mapping |-> InitialMapping, saved |-> <<>>, devmode |-> devmode]

NoDC == [mapping |-> InitialMapping, saved |-> <<>>, devmode |-> Null]

\* GetDeviceCaps (main.c 546-555): a 203 dpi printer; the printable area
\* follows the paper and the orientation of the context's page settings
DeviceCaps(devmode) ==
    LET i == CHOOSE k \in 1..Len(PaperCodes) : PaperCodes[k] = devmode.dmPaperSize
        w == CDiv(PaperDims[i][1] * 203, 254)
        h == CDiv(PaperDims[i][2] * 203, 254)
        land == devmode.dmOrientation = DMORIENT_LANDSCAPE
    IN  [horzres |-> IF land THEN h ELSE w, vertres |-> IF land THEN w ELSE h,
         logpixelsx |-> 203, logpixelsy |-> 203]

MapCalls == <<"SetMapMode", "SetWindowExtEx", "SetViewportExtEx", "SetViewportOrgEx">>

PrintCalls == <<"StartDoc", "StartPage", "StretchDIBits", "EndPage", "EndDoc">>

PrintFails == {"SaveDC"} \cup {MapCalls[i] : i \in 1..Len(MapCalls)}
                \cup {PrintCalls[i] : i \in 1..Len(PrintCalls)}

\* the calls of a chain up to and with the first that fails
RunCalls(calls, fail) ==
    LET k == IF \E i \in 1..Len(calls) : calls[i] = fail
             THEN CHOOSE i \in 1..Len(calls) : calls[i] = fail
             ELSE Len(calls)
    IN  [i \in 1..k |-> Ev("print_label", calls[i], "dc", calls[i] # fail)]

\* the mapping after the calls of main.c 581-615 that succeeded
MapAfter(m, ev, label, w, h, offx, offy) ==
    LET did(c) == \E i \in 1..Len(ev) : ev[i].call = c /\ ev[i].ok
    IN  [map_mode |-> IF did("SetMapMode") THEN "MM_ANISOTROPIC" ELSE m.map_mode,
         wext |-> IF did("SetWindowExtEx") THEN <<label.width, label.height>>
                  ELSE m.wext,
         vext |-> IF did("SetViewportExtEx") THEN <<w, h>> ELSE m.vext,
         vorg |-> IF did("SetViewportOrgEx") THEN <<offx, offy>> ELSE m.vorg]

\* a render step that prints the document in a dry run too
print_label_render_IgnoreDry(dry, fail) == RunCalls(PrintCalls, fail)

\* main.c 617-668: the document, unless this is a dry run
print_label_render(dry, fail) ==
    IF dry THEN <<>> ELSE RunCalls(PrintCalls, fail)

\* an exit label that never calls RestoreDC
print_label_exit_NoRestore(ev, label, saved_state, success, dcv, restore_ok) ==
    [ret |-> success, ev |-> ev \o close_label(label), dc |-> dcv]

\* the exit label (main.c 672-684): [ret, ev, dc]
print_label_exit(ev, label, saved_state, success, dcv, restore_ok) ==
    LET ev1 == ev \o close_label(label)
    IN  IF saved_state > 0
        THEN [ret |-> success /\ restore_ok,
              ev |-> ev1 \o <<Ev("print_label", "RestoreDC", "dc", restore_ok)>>,
              dc |-> IF restore_ok
                     THEN [dcv EXCEPT !.mapping = dcv.saved[saved_state],
                                      !.saved = SubSeq(dcv.saved, 1, saved_state - 1)]
                     ELSE dcv]
        ELSE [ret |-> success, ev |-> ev1, dc |-> dcv]

PlResult(x, calls) ==
    [ret |-> x.ret, ev |-> x.ev, handed |-> {}, crash |-> FALSE, dc |-> x.dc,
     calls |-> calls \o <<[fn |-> "print_label", ret |-> x.ret, ev |-> x.ev,
                            handed |-> {}]>>]

PlCrashed(ev, dcv, calls) ==
    [ret |-> FALSE, ev |-> ev, handed |-> {}, crash |-> TRUE, dc |-> dcv,
     calls |-> calls]

(***************************************************************************)
(* print_label (main.c 518-685).  e.trap says which operations with        *)
(* undefined behaviour end the process: an int overflow (e.trap.ovf), a    *)
(* faulting division (e.trap.div); the others yield the value of a build   *)
(* that does not trap.                                                     *)
(* o: open_label's result; w, h: bitmap_print_w, bitmap_print_h; offx,     *)
(* offy: bitmap_print_offx, bitmap_print_offy, each with its ub flag.      *)
(***************************************************************************)
OpenCall(o) ==
    <<[fn |-> "open_label", ret |-> o.ret, ev |-> o.ev, handed |-> o.handed]>>

\* main.c 572-684: SaveDC, the mapping, the document, the exit label
print_label_draw(dcv, dry, e, o, ev, w, h, offx, offy) ==
    LET F == "print_label"
        ev4 == ev \o <<Ev(F, "SaveDC", "dc", e.fail # "SaveDC")>>
        dc4 == [dcv EXCEPT !.saved = Append(dcv.saved, dcv.mapping)]
        evm == RunCalls(MapCalls, e.fail)
        dc5 == [dc4 EXCEPT !.mapping =
                    MapAfter(dc4.mapping, evm, o.ret.v, w, h, offx, offy)]
        evp == print_label_render(dry, e.fail)
    IN  IF e.fail = "SaveDC"
        THEN print_label_exit(ev4, o.ret, 0, FALSE, dcv, e.restore_ok)
        ELSE IF \E i \in 1..Len(evm) : ~evm[i].ok
        THEN print_label_exit(ev4 \o evm, o.ret, Len(dc4.saved), FALSE, dc5,
                              e.restore_ok)
        ELSE print_label_exit(ev4 \o evm \o evp, o.ret, Len(dc4.saved),
                              \A i \in 1..Len(evp) : evp[i].ok, dc5, e.restore_ok)

\* main.c 566-567: the centering offsets
print_label_center(dcv, dry, e, o, ev, w, h, offx, offy) ==
    IF Traps(e.trap, offx) \/ Traps(e.trap, offy)
    THEN PlCrashed(ev \o <<Ev("print_label", "center", "offset", FALSE)>>, dcv,
                   OpenCall(o))
    ELSE PlResult(print_label_draw(dcv, dry, e, o,
                      ev \o <<Ev("print_label", "center", "offset",
                                 ~(offx.ub \/ offy.ub))>>,
                      w.v, h.v, offx.v, offy.v),
                  OpenCall(o))

\* main.c 564-565: the two scale expressions, in program order; each one
\* ends the process or goes on with its value, on its own
print_label_scale(dcv, dry, e, o, ev, caps, w, h) ==
    LET F == "print_label"
        ev1 == ev \o <<Ev(F, "div", "xres", o.ret.v.xres # 0)>>
        ev2 == ev1 \o <<Ev(F, "div", "yres", o.ret.v.yres # 0)>>
    IN  IF Traps(e.trap, w) THEN PlCrashed(ev1, dcv, OpenCall(o))
        ELSE IF Traps(e.trap, h) THEN PlCrashed(ev2, dcv, OpenCall(o))
        ELSE print_label_center(dcv, dry, e, o, ev2, w, h,
                                CenterOffset(caps.horzres, w.v),
                                CenterOffset(caps.vertres, h.v))

\* main.c 551-565: the resolutions in pixels per metre, then the label's
\* size in device units
print_label_resolved(dcv, dry, e, o, ev, caps, resx, resy) ==
    IF Traps(e.trap, resx) \/ Traps(e.trap, resy)
    THEN PlCrashed(ev, dcv, OpenCall(o))
    ELSE print_label_scale(dcv, dry, e, o, ev, caps,
             ScaleToPrinter(o.ret.v.width, resx.v, o.ret.v.xres),
             ScaleToPrinter(o.ret.v.height, resy.v, o.ret.v.yres))

\* main.c 546-565: the device's figures and the label's size in device units
print_label_fit(dcv, dry, e, o, ev, caps) ==
    print_label_resolved(dcv, dry, e, o,
        ev \o <<Ev("print_label", "GetDeviceCaps", "dc", TRUE)>>, caps,
        PrintRes(caps.logpixelsx), PrintRes(caps.logpixelsy))

\* main.c 537-542: the label, or the way out
print_label_opened(dcv, dry, e, o, ev) ==
    IF o.ret.null
    THEN PlResult(print_label_exit(ev, Null, 0, FALSE, dcv, e.restore_ok),
                  OpenCall(o))
    ELSE print_label_fit(dcv, dry, e, o, ev, DeviceCaps(dcv.devmode.v))

print_label_decoded(dcv, dry, e, o) ==
    IF o.crash THEN PlCrashed(o.ev, dcv, <<>>)
    ELSE print_label_opened(dcv, dry, e, o,
        o.ev \o <<Ev("print_label", "open_label", "label", ~o.ret.null)>>)

print_label(dcv, file, dry, e) ==
    print_label_decoded(dcv, dry, e, open_label(file, e))

(***************************************************************************)
(* The inputs: the label files on disk and the command lines.              *)
(***************************************************************************)
MaxFiles == 2

F_a == <<"a">>

F_b == <<"b">>

F_zero_x == <<"z">>

F_zero_y == <<"y">>

F_bad_tag == <<"t">>

F_short == <<"s">>

F_missing == <<"m">>

F_wide_zero_y == <<"w">>

Disk(filename) ==
    CASE filename = F_a -> BmpFile(10062, BitmapSignature, 10062, 62, 400, 200, 7992, 7992)
      [] filename = F_b -> BmpFile(3000054, BitmapSignature, 3000054, 54, 812, 1218, 3780, 3780)
      [] filename = F_zero_x -> BmpFile(10062, BitmapSignature, 10062, 62, 400, 200, 0, 7992)
      [] filename = F_zero_y -> BmpFile(10062, BitmapSignature, 10062, 62, 400, 200, 7992, 0)
      [] filename = F_bad_tag -> BmpFile(10062, 20617, 10062, 62, 400, 200, 7992, 7992)
      [] filename = F_wide_zero_y ->
            BmpFile(10062, BitmapSignature, 10062, 62, 300000, 200, 7992, 0)
      [] filename = F_short -> BmpFile(10, BitmapSignature, 10, 0, 0, 0, 0, 0)
      [] OTHER -> MissingFile

FileLists ==
    {f \in { <<>>, <<F_a>>, <<F_b>>, <<F_zero_x>>, <<F_zero_y>>, <<F_bad_tag>>,
             <<F_short>>, <<F_missing>>, <<F_wide_zero_y>>, <<F_a, F_b>>, <<F_a, F_a>>,
             <<F_a, F_zero_x>>, <<F_a, F_bad_tag>>, <<F_bad_tag, F_a>>,
             <<F_missing, F_a>>, <<F_a, F_b, F_a>>, <<F_a, F_bad_tag, F_b>>,
             <<F_b, F_a, F_zero_y>> } : Len(f) <= MaxFiles}

S(c) == <<"-", c>>

L(name) == <<"-", "-">> \o name

OptionLists ==
    { <<>>,
      <<S("d")>>, <<L(W_dry_run)>>, <<S("v")>>, <<L(W_verbose)>>,
      <<S("h")>>, <<L(W_help)>>, <<S("x")>>, <<L(<<"b","o","g","u","s">>)>>,
      <<S("p"), <<"P","1">>>>, <<L(W_printer), <<"P","1">>>>,
      <<S("s"), <<"2","x","1">>>>, <<L(W_paper_size), <<"2","x","1">>>>,
      <<S("s"), <<"n","o","p","e">>>>,
      <<S("o"), <<"L","a","n","d","S","c","a","p","e">>>>,
      <<L(W_orientation), W_landscape>>,
      <<S("o"), <<"s","i","d","e">>>>,
      <<L(W_orientation) \o <<"=","P","O","R","T","R","A","I","T">>>>,
      <<<<"-","o","L","a","n","d","S","c","a","p","e">>>>,
      <<S("d"), S("p"), <<"P","1">>, S("s"), <<"4","x","6">>>>,
      <<<<"-","d","v">>, S("o"), W_portrait>>,
      <<S("d"), S("s"), <<"2","x","1">>, S("o"), W_landscape>>,
      <<L(W_printer) \o <<"=","P","1">>, L(<<"p","a","p","e","r">>), PaperNames[1]>>,
      <<S("d"), L(W_help)>>, <<S("x"), S("h")>>, <<S("p")>> }

\* command lines with options between and behind the file names
Interleaved ==
    { <<F_a, S("d"), S("x"), F_b>>,
      <<S("d"), F_a, S("v"), F_b, S("h")>>,
      <<F_a, <<"-","d","v">>, F_b, S("p")>>,
      <<F_a, S("o"), <<"L","a","n","d","S","c","a","p","e">>, S("d"), F_b>>,
      <<F_a, S("d"), <<"-","-">>, F_b>> }

Argvs ==
    {o \o f : o \in OptionLists, f \in FileLists}
        \cup {f \o o : o \in {x \in OptionLists : Len(x) = 1}, f \in FileLists}
        \cup Interleaved

(***************************************************************************)
(* main (main.c 687-866)                                                   *)
(***************************************************************************)
NoHeld ==
    [default_printer_name |-> Null, default_paper_size_name |-> Null,
     paper_size |-> Null, devmode |-> Null, context |-> Null, released |-> {}]

Init ==
    /\ argv \in Argvs
    /\ optind = 1
    /\ nextchar = 0
    /\ skipped = ScanStart(argv)
    /\ opt = [c |-> "", tok |-> <<>>]
    /\ opts = [printer_name |-> Null, paper_size_name |-> Null, orientation |-> Null]
    /\ dry_run = FALSE
    /\ verbose = FALSE
    /\ is_landscape = FALSE
    /\ held = NoHeld
    /\ file_i = 0
    /\ dc = NoDC
    /\ log = <<>>
    /\ returned = <<>>
    /\ outcome = "none"
    /\ pc = "getopt"
    /\ status = "running"
    /\ fit = [pc |-> "off"]
    /\ dec = [pc |-> "off"]

\* exit(EXIT_SUCCESS), exit(EXIT_FAILURE), return 0, an unhandled fault
Exit(how, code) ==
    /\ pc' = "done"
    /\ outcome' = how
    /\ status' = code

\* goto exit after a failure
Fail ==
    /\ pc' = "exit"
    /\ outcome' = "error"
    /\ status' = status

Crash ==
    /\ pc' = "done"
    /\ outcome' = "crash"
    /\ status' = "crash"

Goto(l) ==
    /\ pc' = l
    /\ outcome' = outcome
    /\ status' = status

CallRecord(fn, r) == [fn |-> fn, ret |-> r.ret, ev |-> r.ev, handed |-> r.handed]

\* the switch of main.c 709-740 on what getopt_long returned
Switch(g) ==
    /\ argv' = g.argv
    /\ optind' = g.optind
    /\ nextchar' = g.nextchar
    /\ skipped' = g.skipped
    /\ opt' = [c |-> g.opt, tok |-> g.tok]
    /\ opts' = CASE g.opt = "p" -> [opts EXCEPT !.printer_name = g.optarg]
                 [] g.opt = "s" -> [opts EXCEPT !.paper_size_name = g.optarg]
                 [] g.opt = "o" -> [opts EXCEPT !.orientation = g.optarg]
                 [] OTHER -> opts
    /\ dry_run' = (dry_run \/ g.opt = "d")
    /\ verbose' = (verbose \/ g.opt = "v")
    /\ CASE g.opt = "h" -> Exit("help", "EXIT_SUCCESS")
         [] g.opt = "?" -> Exit("usage", "EXIT_FAILURE")
         [] g.opt = "-1" -> Goto("args")
         [] OTHER -> Goto("getopt")

\* one turn of the option loop (main.c 702-741)
ParseOption ==
    /\ pc = "getopt"
    /\ Switch(getopt_long(argv, optind, nextchar, skipped))
    /\ UNCHANGED <<is_landscape, held, file_i, dc, log, returned, aux>>

\* main.c 751-757
LowerCase(str) == [i \in 1..Len(str) |-> tolower(str[i])]

\* main.c 753-756: orientation points into argv, at the element that came
\* in at index at.i, and is lower-cased there, in place
LowerCasedInPlace(av, d, at) ==
    IF at.null THEN av
    ELSE [av EXCEPT ![CHOOSE k \in 1..Len(av) : d.origin[k] = at.i] =
                        SubSeq(@, 1, at.from - 1) \o LowerCase(at.v)]

\* the file count and the orientation (main.c 743-776)
CheckArgs ==
    /\ pc = "args"
    /\ LET file_count == Len(argv) - optind + 1
           orientation == IF opts.orientation.null THEN W_portrait
                          ELSE LowerCase(opts.orientation.v)
       IN  IF file_count <= 0
           THEN Exit("usage", "EXIT_FAILURE")
                  /\ UNCHANGED <<argv, opts, is_landscape>>
           ELSE /\ argv' = LowerCasedInPlace(argv, skipped, opts.orientation)
                /\ opts' = [opts EXCEPT !.orientation = Ptr(orientation)]
                /\ IF orientation = W_landscape
                   THEN is_landscape' = TRUE /\ Goto("printer")
                   ELSE IF orientation = W_portrait
                   THEN is_landscape' = FALSE /\ Goto("printer")
                   ELSE Exit("usage", "EXIT_FAILURE") /\ UNCHANGED is_landscape
    /\ UNCHANGED <<optind, nextchar, skipped, opt, dry_run, verbose, held,
                   file_i, dc, log, returned, aux>>

\* the environments of the calls
GdpEnv == [fail : GdpFails]

GdpsnEnv(h) == [fail : GdpsnFails, junk : Junk(h)]

GpsEnv == [fail : GpsFails]

SpsEnv == [fail : SpsFails, clamp : BOOLEAN]

\* what a header field holds when it is read from behind a buffer shorter
\* than the file header (main.c 449-462): any value, here one that passes
\* the field's check and one that fails it
Garbage(file) ==
    IF file.exists /\ file.len < FileHeaderSize
    THEN [type : {BitmapSignature, 0}, size : {file.len, file.len + 1},
          off : {0, FileHeaderSize + InfoHeaderSize}]
    ELSE {[type |-> 0, size |-> 0, off |-> 0]}

PlEnv(file) ==
    [fail : {"none"} \cup OpenFails \cup PrintFails, restore_ok : BOOLEAN,
     trap : [ovf : BOOLEAN, div : BOOLEAN], g : Garbage(file),
     oob : BOOLEAN, misaligned : BOOLEAN]

MainEv(call, obj, ok) == Ev("main", call, obj, ok)

\* main.c 778-789
ResolvePrinter ==
    /\ pc = "printer"
    /\ IF opts.printer_name.null
       THEN \E e \in GdpEnv :
              LET r == get_default_printer(e)
              IN  /\ log' = log \o r.ev \o
                        <<MainEv("get_default_printer", "default_printer_name",
                                 ~r.ret.null)>>
                  /\ returned' = <<CallRecord("get_default_printer", r)>>
                  /\ held' = [held EXCEPT !.default_printer_name = r.ret]
                  /\ IF r.ret.null
                     THEN Fail /\ UNCHANGED opts
                     ELSE Goto("paper_name")
                            /\ opts' = [opts EXCEPT !.printer_name = r.ret]
       ELSE Goto("paper_name") /\ returned' = <<>> /\ UNCHANGED <<log, held, opts>>
    /\ UNCHANGED <<argv, optind, nextchar, skipped, opt, dry_run, verbose,
                   is_landscape, file_i, dc, aux>>

\* main.c 791-802
ResolvePaperName ==
    /\ pc = "paper_name"
    /\ IF opts.paper_size_name.null
       THEN \E e \in GdpsnEnv(held) :
              LET r == get_default_paper_size_name(opts.printer_name.v, e)
              IN  /\ log' = log \o r.ev \o
                        (IF r.crash THEN <<>>
                         ELSE <<MainEv("get_default_paper_size_name",
                                       "default_paper_size_name", ~r.ret.null)>>)
                  /\ returned' = IF r.crash THEN <<>>
                                 ELSE <<CallRecord("get_default_paper_size_name", r)>>
                  /\ held' = [held EXCEPT !.default_paper_size_name = r.ret,
                                          !.released = r.released]
                  /\ IF r.crash THEN Crash /\ UNCHANGED opts
                     ELSE IF r.ret.null THEN Fail /\ UNCHANGED opts
                     ELSE Goto("paper_size")
                            /\ opts' = [opts EXCEPT !.paper_size_name = r.ret]
       ELSE Goto("paper_size") /\ returned' = <<>> /\ UNCHANGED <<log, held, opts>>
    /\ UNCHANGED <<argv, optind, nextchar, skipped, opt, dry_run, verbose,
                   is_landscape, file_i, dc, aux>>

\* main.c 804-821
LookupPaperSize ==
    /\ pc = "paper_size"
    /\ \E e \in GpsEnv :
         LET r == get_paper_size(opts.printer_name.v, opts.paper_size_name.v, e)
         IN  /\ log' = log \o r.ev \o
                   <<MainEv("get_paper_size", "paper_size", ~r.ret.null)>> \o
                   (IF r.ret.null THEN <<>>
                    ELSE <<MainEv("printf", "printer", TRUE),
                           MainEv("printf", "paper", TRUE)>> \o
                         (IF dry_run THEN <<MainEv("printf", "dry_run", TRUE)>>
                          ELSE <<>>))
             /\ returned' = <<CallRecord("get_paper_size", r)>>
             /\ held' = [held EXCEPT !.paper_size = r.ret]
             /\ IF r.ret.null THEN Fail ELSE Goto("page")
    /\ UNCHANGED <<argv, optind, nextchar, skipped, opt, opts, dry_run, verbose,
                   is_landscape, file_i, dc, aux>>

\* main.c 823-828
ConfigurePage ==
    /\ pc = "page"
    /\ \E e \in SpsEnv :
         LET r == set_paper_size(opts.printer_name.v, held.paper_size.v,
                                 is_landscape, dry_run, e)
         IN  /\ log' = log \o r.ev \o
                   <<MainEv("set_paper_size", "devmode", ~r.ret.null)>>
             /\ returned' = <<CallRecord("set_paper_size", r)>>
             /\ held' = [held EXCEPT !.devmode = r.ret]
             /\ IF r.ret.null THEN Fail ELSE Goto("context")
    /\ UNCHANGED <<argv, optind, nextchar, skipped, opt, opts, dry_run, verbose,
                   is_landscape, file_i, dc, aux>>

\* main.c 830-835
CreateContext ==
    /\ pc = "context"
    /\ \E ok \in BOOLEAN :
         /\ log' = Append(log, MainEv("CreateDC", "context", ok))
         /\ held' = [held EXCEPT !.context = IF ok THEN Ptr("context") ELSE Null]
         /\ dc' = IF ok THEN NewDC(held.devmode) ELSE dc
         /\ IF ok THEN Goto("files") ELSE Fail
    /\ returned' = <<>>
    /\ UNCHANGED <<argv, optind, nextchar, skipped, opt, opts, dry_run, verbose,
                   is_landscape, file_i, aux>>

\* a loop that goes on to the next file after a failed print_label
print_loop_next_SkipAndContinue(ok, i, file_count) ==
    IF i + 1 < file_count THEN "files" ELSE "exit"

\* where the loop of main.c 837-847 goes after print_label returned ok for
\* file i
print_loop_next(ok, i, file_count) ==
    IF ~ok THEN "fail"
    ELSE IF i + 1 < file_count THEN "files"
    ELSE "exit"

\* main.c 840-846 for file i, print_label having returned r
AfterPrint(r, next, i, filename) ==
    /\ returned' = r.calls
    /\ dc' = r.dc
    /\ IF r.crash
       THEN log' = log \o r.ev /\ Crash /\ UNCHANGED file_i
       ELSE /\ log' = log \o r.ev \o
                   <<[fn |-> "main", call |-> "print_label", obj |-> "label",
                      ok |-> r.ret, i |-> i, file |-> filename]>> \o
                   (IF r.ret
                    THEN <<[fn |-> "main", call |-> "printf", obj |-> "label",
                            ok |-> TRUE, i |-> i, file |-> filename]>>
                    ELSE <<>>)
            /\ file_i' = IF next = "fail" THEN i ELSE i + 1
            /\ IF next = "fail" THEN Fail
               ELSE IF next = "files" THEN Goto("files")
               ELSE /\ pc' = "exit"
                    /\ outcome' = IF outcome = "none" THEN "success" ELSE outcome
                    /\ status' = status

PrintReturned(r, i, file_count, filename) ==
    AfterPrint(r, print_loop_next(r.ret, i, file_count), i, filename)

\* one turn of the loop over the files (main.c 837-847)
PrintFile ==
    /\ pc = "files"
    /\ \E e \in PlEnv(Disk(argv[optind + file_i])) :
         PrintReturned(print_label(dc, Disk(argv[optind + file_i]), dry_run, e),
                       file_i, Len(argv) - optind + 1, argv[optind + file_i])
    /\ UNCHANGED <<argv, optind, nextchar, skipped, opt, opts, dry_run, verbose,
                   is_landscape, held, aux>>

\* what main took and what it frees (main.c 849-863)
MainOwned(l) ==
    SelectSeq(l, LAMBDA x : x.fn = "main" /\ x.call # "printf" /\ x.call # "print_label")

main_exit(h) ==
    (IF ~h.default_printer_name.null
     THEN <<MainEv("free", "default_printer_name", TRUE)>> ELSE <<>>)
    \o (IF ~h.default_paper_size_name.null
        THEN <<MainEv("free", "default_paper_size_name", TRUE)>> ELSE <<>>)
    \o (IF ~h.devmode.null THEN <<MainEv("free", "devmode", TRUE)>> ELSE <<>>)
    \o (IF ~h.paper_size.null THEN <<MainEv("free", "paper_size", TRUE)>> ELSE <<>>)
    \o (IF ~h.context.null THEN <<MainEv("DeleteDC", "context", TRUE)>> ELSE <<>>)

\* the first release, in evs, of a buffer that was released before: 0 if
\* there is none
DoubleFreeAt(evs, released) ==
    IF \E k \in 1..Len(evs) : evs[k].obj \in released
    THEN CHOOSE k \in 1..Len(evs) :
            evs[k].obj \in released /\ \A j \in 1..(k - 1) : evs[j].obj \notin released
    ELSE 0

\* main.c 849-865 from the releases evs: return 0, or the process ended by
\* the allocator at release k, a second free of the same buffer
main_return(evs, k, abort) ==
    IF abort /\ k > 0
    THEN /\ log' = log \o SubSeq(evs, 1, k)
         /\ returned' = <<>>
         /\ Crash
    ELSE /\ log' = log \o evs
         /\ returned' = <<[fn |-> "main", ret |-> 0,
                           ev |-> MainOwned(log) \o evs, handed |-> {}]>>
         /\ Exit(outcome, "EXIT_SUCCESS")

\* the exit label and return 0 (main.c 849-865)
Cleanup ==
    /\ pc = "exit"
    /\ \E abort \in BOOLEAN :
         main_return(main_exit(held), DoubleFreeAt(main_exit(held), held.released),
                     abort)
    /\ held' = NoHeld
    /\ UNCHANGED <<argv, optind, nextchar, skipped, opt, opts, dry_run, verbose,
                   is_landscape, file_i, dc, aux>>

Next ==
    \/ ParseOption
    \/ CheckArgs
    \/ ResolvePrinter
    \/ ResolvePaperName
    \/ LookupPaperSize
    \/ ConfigurePage
    \/ CreateContext
    \/ PrintFile
    \/ Cleanup

Spec == Init /\ [][Next]_vars

(***************************************************************************)
(* print_label's arithmetic on its own: two pixel sizes w1 <= w2 of one    *)
(* resolution and density are scaled, then centered on a printable size.   *)
(***************************************************************************)
MaxPx == 6

MaxPrintable == 4

BigPx == 100000

FitSizes == 0..MaxPx \cup {BigPx, 2 * BigPx}

FitInputs ==
    {f \in {[pc |-> "input", w1 |-> a, w2 |-> b, res |-> r, dens |-> d,
             print |-> p, t1 |-> 0, t2 |-> 0, off1 |-> 0, off2 |-> 0] :
                a \in FitSizes, b \in FitSizes,
                r \in {1, 2, 3, PrintRes(300).v},
                d \in {0, 1, 2, 3, 2835, PrintRes(300).v},
                p \in 0..MaxPrintable \cup {812}} : f.w1 <= f.w2}

MainIdle ==
    /\ argv = <<>>
    /\ optind = 1
    /\ nextchar = 0
    /\ skipped = ScanStart(argv)
    /\ opt = [c |-> "", tok |-> <<>>]
    /\ opts = [printer_name |-> Null, paper_size_name |-> Null, orientation |-> Null]
    /\ dry_run = FALSE
    /\ is_landscape = FALSE
    /\ held = NoHeld
    /\ file_i = 0
    /\ dc = NoDC
    /\ log = <<>>
    /\ returned = <<>>
    /\ outcome = "none"
    /\ pc = "off"
    /\ status = "running"

MainOff == MainIdle /\ verbose = FALSE

InitFit ==
    /\ MainOff
    /\ fit \in FitInputs
    /\ dec = [pc |-> "off"]

Scaled(f, s1, s2, trap) ==
    IF Traps(trap, s1) \/ Traps(trap, s2) THEN [f EXCEPT !.pc = "crashed"]
    ELSE [f EXCEPT !.pc = "scaled", !.t1 = s1.v, !.t2 = s2.v]

\* main.c 564-565
FitScale ==
    /\ fit.pc = "input"
    /\ \E trap \in [ovf : BOOLEAN, div : BOOLEAN] :
         fit' = Scaled(fit, ScaleToPrinter(fit.w1, fit.res, fit.dens),
                       ScaleToPrinter(fit.w2, fit.res, fit.dens), trap)
    /\ UNCHANGED <<mainvars, dec>>

Centered(f, o1, o2, trap) ==
    IF Traps(trap, o1) \/ Traps(trap, o2) THEN [f EXCEPT !.pc = "crashed"]
    ELSE [f EXCEPT !.pc = "centered", !.off1 = o1.v, !.off2 = o2.v]

\* main.c 566-567
FitCenter ==
    /\ fit.pc = "scaled"
    /\ \E trap \in [ovf : BOOLEAN, div : BOOLEAN] :
         fit' = Centered(fit, CenterOffset(fit.print, fit.t1),
                         CenterOffset(fit.print, fit.t2), trap)
    /\ UNCHANGED <<mainvars, dec>>

NextFit == FitScale \/ FitCenter

SpecFit == InitFit /\ [][NextFit]_vars

(***************************************************************************)
(* open_label on its own, over files of many lengths and headers.          *)
(***************************************************************************)
MaxPixelBytes == 8

HeadersSize == FileHeaderSize + InfoHeaderSize

DecodeLens ==
    {0, 1, 5, 10, FileHeaderSize - 1, FileHeaderSize, HeadersSize - 1,
     HeadersSize, HeadersSize + 1, HeadersSize + MaxPixelBytes}

DecodeOffs ==
    {0, FileHeaderSize, HeadersSize - 1, HeadersSize, HeadersSize + 1,
     HeadersSize + MaxPixelBytes, HeadersSize + MaxPixelBytes + 1}

DecodeFiles ==
    {MissingFile} \cup
    {BmpFile(len, type, size, off, 2, 3, 2835, 0) :
        len \in DecodeLens, type \in {BitmapSignature, 0},
        size \in DecodeLens, off \in DecodeOffs}

OpenEnv(file) ==
    [fail : {"none"} \cup OpenFails, g : Garbage(file), oob : BOOLEAN,
     misaligned : BOOLEAN]

InitDecode ==
    /\ MainIdle
    /\ verbose \in BOOLEAN
    /\ fit = [pc |-> "off"]
    /\ dec \in {[pc |-> "input", file |-> f, g |-> [type |-> 0, size |-> 0, off |-> 0],
                 ret |-> Null, ev |-> <<>>] : f \in DecodeFiles}

Decoded(d, g, o) ==
    [d EXCEPT !.pc = IF o.crash THEN "crashed" ELSE "done",
              !.g = g, !.ret = o.ret, !.ev = o.ev]

DecodeOpen ==
    /\ dec.pc = "input"
    /\ \E e \in OpenEnv(dec.file) : dec' = Decoded(dec, e.g, open_label(dec.file, e))
    /\ UNCHANGED <<mainvars, fit>>

NextDecode == DecodeOpen

SpecDecode == InitDecode /\ [][NextDecode]_vars

(***************************************************************************)
(* Reading the log.                                                        *)
(***************************************************************************)
Acquires ==
    {"malloc", "strdup", "OpenPrinter", "CreateFile", "CreateDC",
     "get_default_printer", "get_default_paper_size_name", "get_paper_size",
     "set_paper_size"}

Releases == {"free", "ClosePrinter", "CloseHandle", "DeleteDC"}

CountOf(ev, calls, obj) ==
    Cardinality({i \in 1..Len(ev) :
                    ev[i].ok /\ ev[i].call \in calls /\ ev[i].obj = obj})

ResourcesOf(ev) ==
    {ev[i].obj : i \in {k \in 1..Len(ev) : ev[k].call \in Acquires \cup Releases}}

\* every resource the call acquired is handed to the caller and not
\* released, or released once; nothing else is released
Balanced(c) ==
    \A o \in ResourcesOf(c.ev) :
        /\ CountOf(c.ev, Acquires, o) <= 1
        /\ o \in c.handed =>
              CountOf(c.ev, Acquires, o) = 1 /\ CountOf(c.ev, Releases, o) = 0
        /\ o \notin c.handed =>
              CountOf(c.ev, Releases, o) = CountOf(c.ev, Acquires, o)

Called(ev, call) == \E i \in 1..Len(ev) : ev[i].call = call

Succeeded(ev, call) == \E i \in 1..Len(ev) : ev[i].call = call /\ ev[i].ok

Returned(fn) == {returned[i] : i \in {k \in 1..Len(returned) : returned[k].fn = fn}}

PrintCallSet == {PrintCalls[i] : i \in 1..Len(PrintCalls)}

MapCallSet == {MapCalls[i] : i \in 1..Len(MapCalls)}

StepCalls ==
    {"get_default_printer", "get_default_paper_size_name", "get_paper_size",
     "set_paper_size", "CreateDC", "print_label"}

\* the pipeline steps main has taken, in order
Steps == SelectSeq(log, LAMBDA x : x.fn = "main" /\ x.call \in StepCalls)

Rank(x) ==
    CASE x.call = "get_default_printer" -> 1
      [] x.call = "get_default_paper_size_name" -> 2
      [] x.call = "get_paper_size" -> 3
      [] x.call = "set_paper_size" -> 4
      [] x.call = "CreateDC" -> 5
      [] x.call = "print_label" -> 6 + x.i

\* decode 1, fit 2, render 3, the way out 4; 0: not part of print_label
Phase(x) ==
    CASE x.fn = "open_label" -> 1
      [] x.fn = "close_label" -> 4
      [] x.fn = "print_label" /\ x.call = "open_label" -> 1
      [] x.fn = "print_label" /\ x.call \in {"GetDeviceCaps", "div", "center"} -> 2
      [] x.fn = "print_label" /\ x.call = "RestoreDC" -> 4
      [] x.fn = "print_label" -> 3
      [] OTHER -> 0

IsPrintReturn(x) == x.fn = "main" /\ x.call = "print_label"

IsMarker(x) == x.fn = "main" /\ x.call = "printf" /\ x.obj = "label"

(***************************************************************************)
(* C1: a run ends with status 0 exactly when it succeeded or printed help; *)
(* a usage error or a processing error ends with a non-zero status.        *)
(***************************************************************************)
C1_ExitStatus ==
    pc = "done" =>
        ((status = "EXIT_SUCCESS") <=> (outcome \in {"success", "help"}))

(***************************************************************************)
(* C2: the steps run in the order resolve printer, resolve paper size,     *)
(* configure page, create context, then the files in command-line order,   *)
(* each decoded, fitted, rendered; after a failed step no later step runs; *)
(* the completion marker is printed for exactly the files printed before   *)
(* the failure.                                                            *)
(***************************************************************************)
C2_PipelineOrder ==
    /\ Len(Steps) > 0 => Rank(Steps[1]) <= 3
    /\ \A k \in 1..(Len(Steps) - 1) :
          /\ Steps[k].ok
          /\ Rank(Steps[k]) < Rank(Steps[k + 1])
          /\ Rank(Steps[k + 1]) >= 4 => Rank(Steps[k]) = Rank(Steps[k + 1]) - 1
    /\ \A k \in 1..Len(Steps) :
          Steps[k].call = "print_label" => Steps[k].file = argv[optind + Steps[k].i]
    /\ \A p \in 1..Len(log) :
          /\ log[p].fn = "set_paper_size" =>
                \E q \in 1..(p - 1) : log[q] = MainEv("get_paper_size", "paper_size", TRUE)
          /\ log[p].fn \in {"open_label", "print_label"} =>
                \E q \in 1..(p - 1) : log[q] = MainEv("CreateDC", "context", TRUE)
          /\ IsPrintReturn(log[p]) /\ log[p].ok =>
                p < Len(log) /\ IsMarker(log[p + 1]) /\ log[p + 1].i = log[p].i
          /\ IsMarker(log[p]) =>
                p > 1 /\ IsPrintReturn(log[p - 1]) /\ log[p - 1].ok
                      /\ log[p - 1].i = log[p].i
          /\ (p < Len(log) /\ Phase(log[p]) > 0 /\ Phase(log[p + 1]) > 0) =>
                Phase(log[p]) <= Phase(log[p + 1])
          /\ (p < Len(log) /\ log[p].fn = "main" /\ log[p].call \in StepCalls
                /\ ~log[p].ok) =>
                \A q \in (p + 1)..Len(log) : log[q].fn = "main" /\ log[q].call \in Releases

C2_Witness ==
    /\ pc = "done"
    /\ \E k \in 1..Len(Steps) :
          Steps[k].call = "print_label" /\ Steps[k].i = 1 /\ ~Steps[k].ok
    /\ \E p \in 1..Len(log) : IsMarker(log[p]) /\ log[p].i = 0

(***************************************************************************)
(* C3: every handle and buffer a function acquires and does not hand to    *)
(* its caller is released exactly once on every return path, and nothing   *)
(* is released that was not acquired.                                      *)
(***************************************************************************)
C3_ReleasedExactlyOnce == \A i \in 1..Len(returned) : Balanced(returned[i])

(***************************************************************************)
(* C4: in a dry run nothing is submitted: no settings-apply call, no       *)
(* StartDoc, StartPage, StretchDIBits, EndPage, EndDoc.  print_label still *)
(* sets the mapping, and set_paper_size returns the requested paper size   *)
(* code and orientation.  As claimed: print_label reports success for      *)
(* every file whose decode and mapping setup succeed.                      *)
(***************************************************************************)
C4_NoSubmission ==
    \A p \in 1..Len(log) :
        /\ log[p].call \notin PrintCallSet
        /\ ~(log[p].call = "DocumentProperties" /\ log[p].obj = "DM_IN_BUFFER")

C4_MappingSet(c) ==
    /\ Succeeded(c.ev, "SaveDC") => Called(c.ev, "SetMapMode")
    /\ Succeeded(c.ev, "SetMapMode") => Called(c.ev, "SetWindowExtEx")
    /\ Succeeded(c.ev, "SetWindowExtEx") => Called(c.ev, "SetViewportExtEx")
    /\ Succeeded(c.ev, "SetViewportExtEx") => Called(c.ev, "SetViewportOrgEx")

C4_Settings ==
    \A c \in Returned("set_paper_size") :
        ~c.ret.null =>
            /\ c.ret.v.dmPaperSize = PaperCodes[FindPaper(opts.paper_size_name.v)]
            /\ c.ret.v.dmOrientation =
                  (IF opts.orientation.v = W_landscape THEN DMORIENT_LANDSCAPE
                   ELSE DMORIENT_PORTRAIT)

C4_DryRunAsClaimed ==
    dry_run =>
        /\ C4_NoSubmission
        /\ C4_Settings
        /\ \A c \in Returned("print_label") :
              /\ C4_MappingSet(c)
              /\ (Succeeded(c.ev, "open_label") /\ Succeeded(c.ev, "SaveDC")
                    /\ \A m \in MapCallSet : Succeeded(c.ev, m)) => c.ret

(***************************************************************************)
(* C4, amended: as above, but print_label reports success for every file   *)
(* whose decode and mapping setup succeed and whose RestoreDC succeeds; a  *)
(* failed RestoreDC makes the dry run's print_label report failure.        *)
(***************************************************************************)
C4_DryRun ==
    dry_run =>
        /\ C4_NoSubmission
        /\ C4_Settings
        /\ \A c \in Returned("print_label") :
              /\ C4_MappingSet(c)
              /\ (Succeeded(c.ev, "open_label") /\ Succeeded(c.ev, "SaveDC")
                    /\ \A m \in MapCallSet : Succeeded(c.ev, m)) =>
                    (c.ret <=> Succeeded(c.ev, "RestoreDC"))

C4_Witness ==
    /\ dry_run
    /\ is_landscape
    /\ \E c \in Returned("print_label") :
          c.ret /\ Succeeded(c.ev, "SetViewportOrgEx") /\ Succeeded(c.ev, "RestoreDC")

(***************************************************************************)
(* C5: each documented option is accepted in its long and its short form   *)
(* with the same effect, and only an option outside the documented set is  *)
(* treated as unknown.                                                     *)
(***************************************************************************)
Documented ==
    { <<W_printer, "p">>, <<W_paper_size, "s">>, <<W_orientation, "o">>,
      <<W_dry_run, "d">>, <<W_verbose, "v">>, <<W_help, "h">> }

C5_LongAndShortAccepted ==
    /\ \A d \in Documented : opt.tok = L(d[1]) => opt.c = d[2]
    /\ opt.c = "?" =>
          \/ \A d \in Documented : opt.tok # L(d[1]) /\ opt.tok # S(d[2])
          \/ opt.tok = argv[Len(argv)]

(***************************************************************************)
(* C6: a label file that declares a horizontal or vertical pixel density   *)
(* of zero is rejected by open_label, and print_label never divides by a   *)
(* zero density.                                                           *)
(***************************************************************************)
C6_ZeroDensityRejected ==
    /\ \A p \in 1..Len(log) : log[p].call = "div" => log[p].ok
    /\ \A c \in Returned("open_label") :
          ~c.ret.null => c.ret.v.xres # 0 /\ c.ret.v.yres # 0

(***************************************************************************)
(* C10: print_label changes the mapping only after a successful SaveDC,    *)
(* and every return after a successful SaveDC calls RestoreDC exactly      *)
(* once, last; so every print_label call starts from the mapping of the    *)
(* first, and a failed RestoreDC makes print_label report failure.         *)
(***************************************************************************)
C10_SaveRestore ==
    /\ pc = "files" => dc.mapping = InitialMapping /\ dc.saved = <<>>
    /\ \A c \in Returned("print_label") :
          /\ \A i \in 1..Len(c.ev) :
                c.ev[i].call \in MapCallSet =>
                    \E j \in 1..(i - 1) : c.ev[j].call = "SaveDC" /\ c.ev[j].ok
          /\ Succeeded(c.ev, "SaveDC") =>
                /\ Cardinality({i \in 1..Len(c.ev) : c.ev[i].call = "RestoreDC"}) = 1
                /\ c.ev[Len(c.ev)].call = "RestoreDC"
          /\ ~Succeeded(c.ev, "SaveDC") => ~Called(c.ev, "RestoreDC")
          /\ (Called(c.ev, "RestoreDC") /\ ~Succeeded(c.ev, "RestoreDC")) => ~c.ret

C10_Witness ==
    /\ pc = "files"
    /\ file_i = 1
    /\ \E c \in Returned("print_label") :
          /\ Succeeded(c.ev, "SetViewportOrgEx")
          /\ Succeeded(c.ev, "EndDoc")
          /\ Succeeded(c.ev, "RestoreDC")

(***************************************************************************)
(* C7: for a file of any length, shorter than the file header included,    *)
(* open_label returns an image only if the format tag is the bitmap        *)
(* signature, the declared total size is the file's size and the declared  *)
(* pixel offset is at least the size of the two headers and at most the    *)
(* file's size; in every other case it returns no image, no label is left  *)
(* allocated and the file buffer is freed.  A call that reads a header     *)
(* field from behind a buffer shorter than the header and is ended by that *)
(* read (dec.pc = "crashed") has returned nothing and freed nothing.       *)
(***************************************************************************)
C7_OpenLabelValidates ==
    dec.pc \in {"done", "crashed"} =>
        /\ ~dec.ret.null =>
              /\ dec.pc = "done"
              /\ dec.file.exists
              /\ dec.file.len >= HeadersSize
              /\ dec.file.bfType = BitmapSignature
              /\ dec.file.bfSize = dec.file.len
              /\ dec.file.bfOffBits >= HeadersSize
              /\ dec.file.bfOffBits <= dec.file.len
              /\ dec.ret.v.bits = dec.file.bfOffBits
              /\ dec.ret.v.width = dec.file.biWidth
              /\ dec.ret.v.height = dec.file.biHeight
              /\ CountOf(dec.ev, {"malloc"}, "file_data") = 1
              /\ CountOf(dec.ev, {"malloc"}, "label") = 1
              /\ CountOf(dec.ev, {"free"}, "file_data") = 0
              /\ CountOf(dec.ev, {"free"}, "label") = 0
        /\ dec.ret.null =>
              /\ dec.pc = "done"
              /\ CountOf(dec.ev, {"free"}, "file_data") =
                    CountOf(dec.ev, {"malloc"}, "file_data")
              /\ CountOf(dec.ev, {"free"}, "label") =
                    CountOf(dec.ev, {"malloc"}, "label")

(***************************************************************************)
(* C8 as claimed: for printable size P >= 0 and target size T >= 0 the     *)
(* offset (P - T) / 2 is >= 0 with offset + T <= P when T <= P, and is     *)
(* strictly negative when T > P.                                           *)
(***************************************************************************)
C8_Targets == {<<fit.t1, fit.off1>>, <<fit.t2, fit.off2>>}

C8_Inside(x) == x[2] >= 0 /\ x[2] + x[1] <= fit.print

C8_OffsetNegativeWhenLarger ==
    fit.pc = "centered" =>
        \A x \in C8_Targets :
            x[1] >= 0 =>
                /\ x[1] <= fit.print => C8_Inside(x)
                /\ x[1] > fit.print => x[2] < 0

(***************************************************************************)
(* C8, amended: when T <= P, offset >= 0 and offset + T <= P; when T > P   *)
(* the offset is -((T - P) div 2): never positive, never clamped, strictly *)
(* negative exactly when T >= P + 2 and zero when T = P + 1.               *)
(***************************************************************************)
C8_CenterOffset ==
    fit.pc = "centered" =>
        \A x \in C8_Targets :
            x[1] >= 0 =>
                /\ x[1] <= fit.print => C8_Inside(x)
                /\ x[1] > fit.print =>
                      /\ x[2] = 0 - ((x[1] - fit.print) \div 2)
                      /\ x[2] <= 0
                      /\ (x[2] < 0) <=> (x[1] >= fit.print + 2)

C8_Witness ==
    /\ fit.pc = "centered"
    /\ fit.t1 = fit.print + 1
    /\ fit.off1 = 0
    /\ fit.t2 > fit.print + 1
    /\ fit.off2 < 0

(***************************************************************************)
(* C9 as claimed: for width w >= 0, density d > 0 and resolution r > 0 the *)
(* target (w * r) / d in 32-bit arithmetic satisfies                        *)
(* target(2w) = 2 * target(w) and is non-decreasing in w.                  *)
(***************************************************************************)
C9_DoublingExact ==
    (fit.pc \in {"scaled", "centered"} /\ fit.dens > 0 /\ fit.res > 0) =>
        /\ fit.t1 <= fit.t2
        /\ fit.w2 = 2 * fit.w1 => fit.t2 = 2 * fit.t1

(***************************************************************************)
(* C9, amended: while w * r fits in a 32-bit int, the target is the        *)
(* quotient of w * r by d rounded down, it is non-decreasing in w, and     *)
(* target(2w) is 2 * target(w), plus one exactly when the remainder of     *)
(* w * r by d is at least half of d.                                       *)
(***************************************************************************)
C9_ScaleDoubling ==
    (fit.pc \in {"scaled", "centered"} /\ fit.dens > 0 /\ fit.res > 0
        /\ fit.w2 <= IntMax \div fit.res) =>
        /\ fit.t1 = (fit.w1 * fit.res) \div fit.dens
        /\ fit.t2 = (fit.w2 * fit.res) \div fit.dens
        /\ fit.t1 <= fit.t2
        /\ fit.w2 = 2 * fit.w1 =>
              fit.t2 = 2 * fit.t1 +
                  (IF 2 * ((fit.w1 * fit.res) % fit.dens) >= fit.dens THEN 1 ELSE 0)

C9_Witness ==
    /\ fit.pc = "scaled"
    /\ fit.dens > 1
    /\ fit.w1 > 0
    /\ fit.w2 = 2 * fit.w1
    /\ fit.t2 = 2 * fit.t1 + 1

(***************************************************************************)
(* C11: print_label never returns with a document or a page left open:     *)
(* every successful StartDoc is followed before the return by EndDoc or an *)
(* abort of the document, and every successful StartPage by EndPage, also  *)
(* when StartPage, StretchDIBits, EndPage or EndDoc fails.                 *)
(***************************************************************************)
C11_ClosedAfter(ev, open, closes) ==
    \A i \in 1..Len(ev) :
        (ev[i].call = open /\ ev[i].ok) =>
            \E j \in (i + 1)..Len(ev) : ev[j].call \in closes

C11_DocumentAndPageClosed ==
    \A c \in Returned("print_label") :
        /\ C11_ClosedAfter(c.ev, "StartDoc", {"EndDoc", "AbortDoc"})
        /\ C11_ClosedAfter(c.ev, "StartPage", {"EndPage", "AbortDoc"})

(***************************************************************************)
(* C12: open_label and print_label access only bytes inside the buffer     *)
(* read from the file: the header fields are read only when the file is    *)
(* at least as long as they reach, and the pixel data of an accepted file, *)
(* from the declared offset and sized by width and height, lies within the *)
(* file's bytes (it does not start at or run past the end of the buffer).  *)
(***************************************************************************)
C12_ReadsInsideBuffer ==
    (dec.pc = "done" /\ Succeeded(dec.ev, "ReadFile")) =>
        /\ \A r \in HeaderReads(dec.file, dec.g, verbose) : r[2] <= dec.file.len
        /\ ~dec.ret.null =>
              /\ \A r \in InfoReads : r[2] <= dec.ret.v.size
              /\ dec.ret.v.bits < dec.ret.v.size
              /\ dec.ret.v.bits + MinPixelBytes(dec.ret.v.width, dec.ret.v.height)
                    <= dec.ret.v.size

=============================================================================
